---- MODULE Spec2Model ----
(***************************************************************************)
(* A model of the Createshop social network: the relational schema with    *)
(* its row-level-security policies and the profile-provisioning trigger    *)
(* (the SQL migration), the auth form's client-side rate limiting, the     *)
(* auth store with its session listener, the route guard and the field     *)
(* validation rules.                                                       *)
(*                                                                         *)
(* The specifications share the module's variables:                        *)
(*   SpecProfiles   identities and the profiles table, from the empty store*)
(*   SpecSocial     posts and friendships between the registered users     *)
(*   SpecAuth       the auth form (handleSubmit, lockout, clock)           *)
(*   SpecSession    the auth store, its listener and the routes            *)
(*   SpecValidation the field rules applied to input strings               *)
(*   SpecRequester  friendship requests issued by one user only            *)
(***************************************************************************)
EXTENDS Integers, Sequences, FiniteSets, TLC

VARIABLES
    users,        \* auth.users: set of [id, email]
    profiles,     \* TABLE profiles: set of [id, username]
    posts,        \* TABLE posts: set of [id, user_id, privacy]
    friendships,  \* TABLE friendships: set of [sender_id, receiver_id, status]
    lastOp,       \* the last request served by the store and its outcome
    mounted,      \* whether the Auth component is rendered
    mode,         \* Auth: 'login' | 'register' | 'verify' | 'reset'
    email,        \* Auth: the email field
    attempts,     \* Auth: the failure counter
    lockoutUntil, \* Auth: the lockout timestamp, or NoDate
    error,        \* Auth: the error shown
    success,      \* Auth: the success message shown
    inflight,     \* Auth: the identity-service call handleSubmit awaits
    verificationSent, \* useAuthStore.verificationSent
    now,          \* the clock, in milliseconds
    lastSubmit,   \* what became of the last submission of the form
    streak,       \* failed submissions since the last successful one
    submitted,    \* the field values the last submission of the form carried
    unverified,   \* identity service: emails registered and not yet verified
    user,         \* useAuthStore.user, or NULL
    loading,      \* useAuthStore.loading
    signOutCall,  \* useAuthStore.signOut: "pending" while awaited, "rejected"
                  \* once it threw, else "none"
    notified,     \* the user of the session last notified, or Never
    route,        \* the location the router renders
    field,        \* the field rule under validation
    input,        \* the string given to the rule
    verdict       \* what the rule made of it

dbVars == <<users, profiles, posts, friendships, lastOp>>

formVars == <<mounted, mode, email, attempts, lockoutUntil, error, success,
              inflight, verificationSent, now, lastSubmit, streak>>

histVars == <<submitted, unverified>>

storeVars == <<user, loading, signOutCall, notified>>

valVars == <<field, input, verdict>>

\* everything but the tables
clientVars == <<formVars, histVars, storeVars, route, valVars>>

vars == <<dbVars, clientVars>>

(***************************************************************************)
(* Bounds of the model.                                                    *)
(***************************************************************************)
MaxPosts == 1
MaxFriendships == 2
MaxAttempts == 6       \* submissions are made while attempts < MaxAttempts
MaxNow == 750000       \* the clock stops here

(***************************************************************************)
(* Values.  NULL is SQL's NULL; auth.uid() is NULL for an anonymous        *)
(* request.  DEFAULT stands for a column the request omits, KEEP for a     *)
(* column an UPDATE does not assign.                                       *)
(***************************************************************************)
NULL == "null"
DEFAULT == "default"
KEEP == "keep"

Users == {"u1", "u2"}
Ghost == "u9"                      \* a uuid that names no identity
Ids == Users \cup {Ghost}
Requesters == Users \cup {NULL}
Emails == {"e1", "e2"}
Usernames == Emails \cup {"nick"}

PrivacyValues == {"public", "friends", "private"}
StatusValues == {"pending", "accepted", "rejected"}

(***************************************************************************)
(* SQL's three-valued logic: "T", "F" and "U" (unknown).  A policy or a    *)
(* WHERE clause passes a row only when it is "T"; a CHECK constraint       *)
(* rejects a row only when it is "F".                                      *)
(***************************************************************************)
Eq3(a, b) == IF a = NULL \/ b = NULL THEN "U" ELSE IF a = b THEN "T" ELSE "F"

And3(a, b) ==
    IF a = "F" \/ b = "F" THEN "F"
    ELSE IF a = "T" /\ b = "T" THEN "T" ELSE "U"

Or3(a, b) ==
    IF a = "T" \/ b = "T" THEN "T"
    ELSE IF a = "F" /\ b = "F" THEN "F" ELSE "U"

\* x IN (a, b): x = a OR x = b
In2(x, a, b) == Or3(Eq3(x, a), Eq3(x, b))

\* x IN ('p', 'q', 'r') over a set of non-null literals
InSet3(x, S) == IF x = NULL THEN "U" ELSE IF x \in S THEN "T" ELSE "F"

Exists3(rows) == IF rows # {} THEN "T" ELSE "F"

(***************************************************************************)
(* Column constraints.                                                     *)
(***************************************************************************)
PrivacyCheck(v) == InSet3(v, PrivacyValues) # "F"

StatusCheck(v) == InSet3(v, StatusValues) # "F"

PrivacyDefault(v) == IF v = DEFAULT THEN "public" ELSE v

StatusDefault(v) == IF v = DEFAULT THEN "pending" ELSE v

ProfileIds == {p.id : p \in profiles}

(***************************************************************************)
(* Row-level-security policies.  uid is auth.uid().                        *)
(***************************************************************************)
ProfilesSelectPolicy(uid, row) == "T"

\* Mutant: the UPDATE policy passes every row.
ProfilesUpdatePolicy_Anyone(uid, row) == "T"

ProfilesUpdatePolicy(uid, row) == Eq3(uid, row.id)

\* Mutant: the subquery does not test status = 'accepted'.
PostsSelectPolicy_AnyStatus(uid, row) ==
    Or3(Eq3(row.privacy, "public"),
        Or3(Eq3(row.user_id, uid),
            And3(Eq3(row.privacy, "friends"),
                 Exists3({f \in friendships :
                     Or3(And3(Eq3(f.sender_id, uid),
                              Eq3(f.receiver_id, row.user_id)),
                         And3(Eq3(f.receiver_id, uid),
                              Eq3(f.sender_id, row.user_id))) = "T"}))))

PostsSelectPolicy(uid, row) ==
    Or3(Eq3(row.privacy, "public"),
        Or3(Eq3(row.user_id, uid),
            And3(Eq3(row.privacy, "friends"),
                 Exists3({f \in friendships :
                     And3(Or3(And3(Eq3(f.sender_id, uid),
                                   Eq3(f.receiver_id, row.user_id)),
                              And3(Eq3(f.receiver_id, uid),
                                   Eq3(f.sender_id, row.user_id))),
                          Eq3(f.status, "accepted")) = "T"}))))

PostsInsertPolicy(uid, row) == Eq3(uid, row.user_id)

PostsUpdatePolicy(uid, row) == Eq3(uid, row.user_id)

FriendshipsSelectPolicy(uid, row) == In2(uid, row.sender_id, row.receiver_id)

\* Mutant: the INSERT check is the participants test of the other policies.
FriendshipsInsertPolicy_EitherParty(uid, row) ==
    In2(uid, row.sender_id, row.receiver_id)

FriendshipsInsertPolicy(uid, row) == Eq3(uid, row.sender_id)

FriendshipsUpdatePolicy(uid, row) == In2(uid, row.sender_id, row.receiver_id)

(***************************************************************************)
(* Reads: the rows the SELECT policy passes.                               *)
(***************************************************************************)
SelectPosts(uid) == {p \in posts : PostsSelectPolicy(uid, p) = "T"}

SelectProfiles(uid) == {p \in profiles : ProfilesSelectPolicy(uid, p) = "T"}

SelectFriendships(uid) ==
    {f \in friendships : FriendshipsSelectPolicy(uid, f) = "T"}

\* A served request: its kind, auth.uid(), the sender_id a friendship insert
\* names (as a sequence), the outcome and, for a read, the ids of the rows
\* returned.
\* res is "ok", "error" (the statement is rejected and nothing is written),
\* "norows" (an UPDATE or DELETE that matched no row it may touch) or "exists"
\* (a registration for an email that already names an identity).
Op(op, by, arg, res, rows) ==
    [op |-> op, by |-> by, arg |-> arg, res |-> res, rows |-> rows]

NoOp == Op("none", NULL, <<>>, "ok", {})


(***************************************************************************)
(* Field validation (lib/validation).  A string is a sequence of           *)
(* one-character strings.  A zod string schema runs its checks in order    *)
(* and reports every violated one; errors[0] is the first.                 *)
(***************************************************************************)
UpperChars == {"A", "B", "C", "D", "E", "F", "G", "H", "I", "J", "K", "L", "M",
               "N", "O", "P", "Q", "R", "S", "T", "U", "V", "W", "X", "Y", "Z"}
LowerChars == {"a", "b", "c", "d", "e", "f", "g", "h", "i", "j", "k", "l", "m",
               "n", "o", "p", "q", "r", "s", "t", "u", "v", "w", "x", "y", "z"}
DigitChars == {"0", "1", "2", "3", "4", "5", "6", "7", "8", "9"}
AlnumChars == UpperChars \cup LowerChars \cup DigitChars

HasChar(str, S) == \E i \in 1..Len(str) : str[i] \in S

\* The messages of the violated checks among <<violated, message>> pairs, in order.
Issues(checks) ==
    LET bad == SelectSeq(checks, LAMBDA c : c[1])
    IN [i \in 1..Len(bad) |-> bad[i][2]]

NoError == "none"

FirstError(issues) == IF issues = <<>> THEN NoError ELSE issues[1]

\* Mutant: the special-character check runs before the lowercase check.
passwordSchema_SpecialFirst(str) ==
    Issues(<<
        <<Len(str) < 8, "Password must be at least 8 characters">>,
        <<~HasChar(str, UpperChars),
          "Password must contain at least one uppercase letter">>,
        <<\A i \in 1..Len(str) : str[i] \in AlnumChars,
          "Password must contain at least one special character">>,
        <<~HasChar(str, LowerChars),
          "Password must contain at least one lowercase letter">>,
        <<~HasChar(str, DigitChars), "Password must contain at least one number">> >>)

passwordSchema(str) ==
    Issues(<<
        <<Len(str) < 8, "Password must be at least 8 characters">>,
        <<~HasChar(str, UpperChars),
          "Password must contain at least one uppercase letter">>,
        <<~HasChar(str, LowerChars),
          "Password must contain at least one lowercase letter">>,
        <<~HasChar(str, DigitChars), "Password must contain at least one number">>,
        <<\A i \in 1..Len(str) : str[i] \in AlnumChars,
          "Password must contain at least one special character">> >>)

\* zod's email check: /^(?!\.)(?!.*\.\.)([A-Z0-9_'+\-\.]*)[A-Z0-9_+-]@
\* ([A-Z0-9][A-Z0-9\-]*\.)+[A-Z]{2,}$/i
IsDomain(d) ==
    LET dots == {i \in 1..Len(d) : d[i] = "."}
        \* label starts: position 1 and every position after a dot
        starts == {1} \cup {i + 1 : i \in dots}
        lastDot == IF dots = {} THEN 0 ELSE CHOOSE i \in dots : \A j \in dots : j <= i
    IN /\ dots # {}
       /\ Len(d) - lastDot >= 2
       /\ \A i \in (lastDot + 1)..Len(d) : d[i] \in UpperChars \cup LowerChars
       /\ \A i \in 1..lastDot :
             IF i \in dots THEN i \notin starts
             ELSE IF i \in starts THEN d[i] \in AlnumChars
             ELSE d[i] \in AlnumChars \cup {"-"}

IsEmail(str) ==
    \E k \in 1..Len(str) :
        /\ str[k] = "@"
        /\ k >= 2
        /\ str[1] # "."
        /\ \A i \in 1..(Len(str) - 1) : ~(str[i] = "." /\ str[i + 1] = ".")
        /\ \A i \in 1..(k - 1) : str[i] \in AlnumChars \cup {"_", "'", "+", "-", "."}
        /\ str[k - 1] \in AlnumChars \cup {"_", "+", "-"}
        /\ IsDomain(SubSeq(str, k + 1, Len(str)))

emailSchema(str) ==
    Issues(<<
        <<~IsEmail(str), "Please enter a valid email address">>,
        <<Len(str) < 5, "Email must be at least 5 characters">>,
        <<Len(str) > 64, "Email must not exceed 64 characters">> >>)

verificationCodeSchema(str) ==
    Issues(<<
        <<Len(str) # 6, "Verification code must be 6 digits">>,
        <<~(Len(str) >= 1 /\ \A i \in 1..Len(str) : str[i] \in DigitChars),
          "Verification code must contain only numbers">> >>)

\* The field values the model types into the form.
EmailSamples == { <<"a", "@", "b", ".", "c", "o">>, <<"x", "@", "y">> }

PasswordSamples ==
    { <<"A", "b", "c", "1", "2", "3", "!", "@">>,
      <<"X", "y", "z", "7", "8", "9", "#", "$">>,
      <<"a", "b", "c", "1", "2", "3", "4", "5">> }

CodeSamples ==
    { <<"1", "2", "3", "4", "5", "6">>,
      <<"1", "2", "a", "4", "5", "6">>,
      <<"1", "2", "3", "4", "5">> }

(***************************************************************************)
(* The auth form (components/Auth) and the store calls it makes.           *)
(***************************************************************************)
NoDate == -1                        \* lockoutUntil = null
LockoutMs == 300000
TickSteps == {150000, 300000}

Modes == {"login", "register", "verify", "reset"}

\* A message shown: its text and, for the countdown, the seconds left.
Msg(text) == [text |-> text, seconds |-> 0]

NoMsg == Msg(NULL)

CountdownMsg(seconds) ==
    [text |-> "Too many attempts. Please try again in N seconds",
     seconds |-> seconds]

TooManyMsg == Msg("Too many attempts. Please try again in 5 minutes.")

\* Math.ceil(ms / 1000) for ms >= 0
CeilSeconds(ms) == (ms + 999) \div 1000

NoCall == [call |-> "none", attempts |-> 0]

Submission(seq, res, validated, called) ==
    [seq |-> seq, res |-> res, validated |-> validated, called |-> called]

\* The values handleSubmit reads in mode m: the email in every mode, the
\* password to log in and to register, its confirmation to register, the
\* code to verify.
Fields(m, em, pw, cpw, code) ==
    [email |-> em,
     password |-> IF m \in {"login", "register"} THEN pw ELSE <<>>,
     confirmPassword |-> IF m = "register" THEN cpw ELSE <<>>,
     verificationCode |-> IF m = "verify" THEN code ELSE <<>>]

NoFields == Fields("reset", <<>>, <<>>, <<>>, <<>>)

InitForm ==
    /\ mounted = TRUE
    /\ mode = "login"
    /\ email = <<>>
    /\ attempts = 0
    /\ lockoutUntil = NoDate
    /\ error = NoMsg
    /\ success = NoMsg
    /\ inflight = NoCall
    /\ verificationSent = FALSE
    /\ now = 0
    /\ lastSubmit = Submission(0, "none", FALSE, FALSE)
    /\ streak = 0
    /\ submitted = NoFields
    /\ unverified = {}
    /\ route = "/auth"

\* if (lockoutUntil && new Date() < lockoutUntil)
Locked == lockoutUntil # NoDate /\ now < lockoutUntil

\* useEffect(..., [lockoutUntil]): runs after a render that changed
\* lockoutUntil, on that render's lockoutUntil (lu) and attempts (at).
LockoutEffect(lu, at) ==
    IF lu # NoDate /\ now > lu
    THEN [lockoutUntil |-> NoDate, attempts |-> 0]
    ELSE [lockoutUntil |-> lu, attempts |-> at]

\* The first validation error handleSubmit throws in mode m, or NoError.
ValidationError(m, em, pw, cpw, code) ==
    IF emailSchema(em) # <<>> THEN FirstError(emailSchema(em))
    ELSE IF m \in {"login", "register"} /\ passwordSchema(pw) # <<>>
    THEN FirstError(passwordSchema(pw))
    ELSE IF m = "register" /\ pw # cpw THEN "Passwords do not match"
    ELSE IF m = "verify" /\ verificationCodeSchema(code) # <<>>
    THEN FirstError(verificationCodeSchema(code))
    ELSE NoError

CallOf(m) ==
    CASE m = "login" -> "signIn"
      [] m = "register" -> "signUp"
      [] m = "verify" -> "verifyOtp"
      [] m = "reset" -> "resetPassword"

\* Mutant: the lockout starts one failure late.
TooManyAttempts_OneLate(seen) == seen >= 5

\* if (attempts >= 4), on the attempts the handler's render saw
TooManyAttempts(seen) == seen >= 4

\* Mutant: the catch branch always shows the error's own message.
Catch_OwnMessage(text, seen) ==
    LET lu == IF TooManyAttempts(seen) THEN now + LockoutMs ELSE lockoutUntil
        eff == IF lu # lockoutUntil THEN LockoutEffect(lu, attempts + 1)
               ELSE [lockoutUntil |-> lu, attempts |-> attempts + 1]
    IN /\ attempts' = eff.attempts
       /\ lockoutUntil' = eff.lockoutUntil
       /\ error' = Msg(text)
       /\ streak' = streak + 1

\* The catch branch of handleSubmit for an error with message text, in a
\* handler whose render saw `seen` attempts; then the effect on lockoutUntil.
Catch(text, seen) ==
    LET lu == IF TooManyAttempts(seen) THEN now + LockoutMs ELSE lockoutUntil
        eff == IF lu # lockoutUntil THEN LockoutEffect(lu, attempts + 1)
               ELSE [lockoutUntil |-> lu, attempts |-> attempts + 1]
    IN /\ attempts' = eff.attempts
       /\ lockoutUntil' = eff.lockoutUntil
       /\ error' = IF TooManyAttempts(seen) THEN TooManyMsg ELSE Msg(text)
       /\ streak' = streak + 1

\* handleSubmit up to its await: the lockout check, the validation and the
\* call of the store.  The submit button is disabled while a call is awaited.
Submit(pw, cpw, code) ==
    /\ mounted
    /\ inflight = NoCall
    /\ attempts < MaxAttempts
    /\ IF Locked
       THEN /\ error' = CountdownMsg(CeilSeconds(lockoutUntil - now))
            /\ success' = NoMsg
            /\ lastSubmit' = Submission(1 - lastSubmit.seq, "locked", FALSE, FALSE)
            /\ submitted' = NoFields
            /\ UNCHANGED <<attempts, lockoutUntil, inflight, streak>>
       ELSE LET v == ValidationError(mode, email, pw, cpw, code)
            IN /\ submitted' = Fields(mode, email, pw, cpw, code)
               /\ IF v # NoError
                  THEN /\ Catch(v, attempts)
                       /\ success' = NoMsg
                       /\ lastSubmit' =
                             Submission(1 - lastSubmit.seq, "failed", TRUE, FALSE)
                       /\ UNCHANGED inflight
                  ELSE /\ inflight' = [call |-> CallOf(mode), attempts |-> attempts]
                       /\ error' = NoMsg
                       /\ success' = NoMsg
                       /\ lastSubmit' =
                             Submission(1 - lastSubmit.seq, "pending", TRUE, TRUE)
                       /\ UNCHANGED <<attempts, lockoutUntil, streak>>
    /\ UNCHANGED <<mounted, mode, email, verificationSent, now, unverified,
                   storeVars, route, valVars, dbVars>>

\* Mutant: registration signs the user in.
signUp_SignsIn == [user |-> "u1", verificationSent |-> TRUE]

\* useAuthStore.signUp after its await: set({ verificationSent: true })
signUp == [user |-> user, verificationSent |-> TRUE]

\* The awaited call returns without error: the rest of the store's method
\* and of the try block.  The identity service holds an email registered
\* until a verification of it succeeds.
RespondOk ==
    /\ inflight # NoCall
    /\ attempts' = 0
    /\ streak' = 0
    /\ inflight' = NoCall
    /\ lastSubmit' = [lastSubmit EXCEPT !.res = "ok"]
    /\ CASE inflight.call = "signIn" ->
              \* navigate('/') leaves the /auth route
              /\ mounted' = FALSE
              /\ route' = "/"
              /\ UNCHANGED <<mode, success, verificationSent, user, unverified>>
         [] inflight.call = "signUp" ->
              /\ verificationSent' = signUp.verificationSent
              /\ user' = signUp.user
              /\ unverified' = unverified \cup {submitted.email}
              /\ mode' = "verify"
              /\ success' = Msg("Registration successful! Please check your email for verification.")
              /\ UNCHANGED <<mounted, route>>
         [] inflight.call = "verifyOtp" ->
              /\ unverified' = unverified \ {submitted.email}
              /\ mode' = "login"
              /\ success' = Msg("Email verified successfully! You can now login.")
              /\ UNCHANGED <<mounted, verificationSent, user, route>>
         [] inflight.call = "resetPassword" ->
              /\ mode' = "login"
              /\ success' = Msg("Password reset instructions have been sent to your email.")
              /\ UNCHANGED <<mounted, verificationSent, user, unverified, route>>
    /\ UNCHANGED <<email, lockoutUntil, error, now, submitted, loading,
                   signOutCall, notified, valVars, dbVars>>

\* The awaited call throws the identity service's error.
RespondError ==
    /\ inflight # NoCall
    /\ Catch("service error", inflight.attempts)
    /\ inflight' = NoCall
    /\ lastSubmit' = [lastSubmit EXCEPT !.res = "failed"]
    /\ UNCHANGED <<mounted, mode, email, success, verificationSent, now, histVars,
                   storeVars, route, valVars, dbVars>>

\* onChange of the email input, rendered in every mode but verify.
SetEmail(e) ==
    /\ mounted
    /\ mode # "verify"
    /\ email' = e
    /\ UNCHANGED <<mounted, mode, attempts, lockoutUntil, error, success, inflight,
                   verificationSent, now, lastSubmit, streak, histVars,
                   storeVars, route, valVars, dbVars>>

\* The toggle button: setMode(mode === 'login' ? 'register' : 'login')
ToggleMode ==
    /\ mounted
    /\ mode' = IF mode = "login" THEN "register" ELSE "login"
    /\ UNCHANGED <<mounted, email, attempts, lockoutUntil, error, success, inflight,
                   verificationSent, now, lastSubmit, streak, histVars,
                   storeVars, route, valVars, dbVars>>

\* "Forgot your password?": setMode('reset')
ForgotPassword ==
    /\ mounted
    /\ mode = "login"
    /\ mode' = "reset"
    /\ UNCHANGED <<mounted, email, attempts, lockoutUntil, error, success, inflight,
                   verificationSent, now, lastSubmit, streak, histVars,
                   storeVars, route, valVars, dbVars>>

\* handleResendVerification, with the outcome of resendVerification(email).
ResendVerification(ok) ==
    /\ mounted
    /\ mode = "verify"
    /\ inflight = NoCall
    /\ IF ok
       THEN /\ verificationSent' = TRUE
            /\ success' = Msg("Verification email has been resent!")
            /\ UNCHANGED error
       ELSE /\ error' = Msg("service error")
            /\ UNCHANGED <<verificationSent, success>>
    /\ UNCHANGED <<mounted, mode, email, attempts, lockoutUntil, inflight, now,
                   lastSubmit, streak, histVars, storeVars, route, valVars,
                   dbVars>>

\* The /auth route is rendered anew: every useState starts from its initial
\* value.  The store and the clock are not the component's.
Mount ==
    /\ ~mounted
    /\ mounted' = TRUE
    /\ mode' = "login"
    /\ email' = <<>>
    /\ attempts' = 0
    /\ lockoutUntil' = NoDate
    /\ error' = NoMsg
    /\ success' = NoMsg
    /\ inflight' = NoCall
    /\ lastSubmit' = Submission(0, "none", FALSE, FALSE)
    /\ streak' = 0
    /\ submitted' = NoFields
    /\ route' = "/auth"
    /\ UNCHANGED <<verificationSent, now, unverified, storeVars, valVars, dbVars>>

Tick(d) ==
    /\ now + d <= MaxNow
    /\ now' = now + d
    /\ UNCHANGED <<mounted, mode, email, attempts, lockoutUntil, error, success,
                   inflight, verificationSent, lastSubmit, streak, histVars,
                   storeVars, route, valVars, dbVars>>

(***************************************************************************)
(* The auth store (store/authStore), its session listener and the routes   *)
(* (App).  The identity client calls the listener on every session change, *)
(* whenever it happens; the store's calls and the listener share nothing   *)
(* but the store.                                                          *)
(***************************************************************************)
Never == "never"

Paths == {"/auth", "/", "/profile"}

InitAuthStore ==
    /\ user = NULL
    /\ loading = TRUE
    /\ signOutCall = "none"
    /\ notified = Never

InitClient == InitForm /\ InitAuthStore

\* supabase.auth.onAuthStateChange((event, session) => setState({ user:
\* session?.user || null, loading: false })), for a session of user s or,
\* with s = NULL, for no session.
OnAuthStateChange(s) ==
    /\ user' = s
    /\ loading' = FALSE
    /\ notified' = s
    /\ UNCHANGED <<signOutCall, formVars, histVars, route, valVars, dbVars>>

\* useAuthStore.signOut up to its await.
SignOut ==
    /\ signOutCall # "pending"
    /\ signOutCall' = "pending"
    /\ UNCHANGED <<user, loading, notified, formVars, histVars, route, valVars,
                   dbVars>>

\* if (error) throw error: the store keeps its state.
signOutThrows == [user |-> user]

\* signOut after its await: with an error it throws, without it
\* set({ user: null }).
SignOutReturns(ok) ==
    /\ signOutCall = "pending"
    /\ signOutCall' = IF ok THEN "none" ELSE "rejected"
    /\ user' = IF ok THEN NULL ELSE signOutThrows.user
    /\ UNCHANGED <<loading, notified, formVars, histVars, route, valVars, dbVars>>

\* Mutant: the guard renders its children once loading is over.
PrivateRoute_Open(children) ==
    IF loading THEN "spinner" ELSE children

\* PrivateRoute: the spinner while loading, then the children inside the
\* layout for a user and <Navigate to="/auth" /> without one.
PrivateRoute(children) ==
    IF loading THEN "spinner"
    ELSE IF user # NULL THEN children
    ELSE "Navigate /auth"

\* <Routes>: what the router renders at path.
Element(path) ==
    CASE path = "/auth" -> "Auth"
      [] path = "/" -> PrivateRoute("Home")
      [] path = "/profile" -> PrivateRoute("Profile")

\* The location changes to a protected route (a link, the address bar),
\* while the form awaits no call; the Auth component is unmounted.
GoTo(path) ==
    /\ path \in Paths \ {"/auth"}
    /\ route # path
    /\ inflight = NoCall
    /\ route' = path
    /\ mounted' = FALSE
    /\ UNCHANGED <<mode, email, attempts, lockoutUntil, error, success, inflight,
                   verificationSent, now, lastSubmit, streak, histVars,
                   storeVars, valVars, dbVars>>

Unchecked == "unchecked"

InitIdle ==
    /\ field = "none"
    /\ input = <<>>
    /\ verdict = Unchecked

(***************************************************************************)
(* Identities and profiles.                                                *)
(***************************************************************************)
UserIds == {u.id : u \in users}

\* handle_new_user: INSERT INTO profiles (id, username, full_name)
\* VALUES (new.id, new.email, ...), against the table's constraints.
NewUserProfile(new) == [id |-> new.id, username |-> new.email]

ProfileInsertOk(row) ==
    /\ row.id \notin ProfileIds                       \* PRIMARY KEY
    /\ row.username # NULL                            \* NOT NULL
    /\ \A p \in profiles : p.username # row.username  \* UNIQUE

\* Mutant: the trigger's failure does not abort the identity's insert.
InsertAuthUser_KeepIdentity(new) ==
    IF ProfileInsertOk(NewUserProfile(new))
    THEN [users |-> users \cup {new},
          profiles |-> profiles \cup {NewUserProfile(new)},
          res |-> "ok"]
    ELSE [users |-> users \cup {new}, profiles |-> profiles, res |-> "error"]

\* INSERT on auth.users with the AFTER INSERT trigger on_auth_user_created:
\* the trigger runs in the inserting transaction, so an exception raised by
\* its INSERT aborts the identity's insert too.
InsertAuthUser(new) ==
    IF ProfileInsertOk(NewUserProfile(new))
    THEN [users |-> users \cup {new},
          profiles |-> profiles \cup {NewUserProfile(new)},
          res |-> "ok"]
    ELSE [users |-> users, profiles |-> profiles, res |-> "error"]

\* supabase.auth.signUp for a new identity: the identity service picks a
\* fresh id and refuses an email that already names an identity.
Register(id, addr) ==
    /\ id \in Users \ UserIds
    /\ LET new == [id |-> id, email |-> addr]
           taken == \E u \in users : u.email = addr
           r == IF taken
                THEN [users |-> users, profiles |-> profiles, res |-> "exists"]
                ELSE InsertAuthUser(new)
       IN /\ users' = r.users
          /\ profiles' = r.profiles
          /\ lastOp' = Op("register", NULL, <<>>, r.res, {})
    /\ UNCHANGED <<posts, friendships, clientVars>>

\* The columns an UPDATE of profiles assigns: one of id, username.
ProfilePatches ==
    {[id |-> i, username |-> KEEP] : i \in Ids}
    \cup {[id |-> KEEP, username |-> n] : n \in Usernames \cup {NULL}}

ApplyProfilePatch(row, patch) ==
    [id |-> IF patch.id = KEEP THEN row.id ELSE patch.id,
     username |-> IF patch.username = KEEP THEN row.username ELSE patch.username]

\* UPDATE profiles SET ... WHERE id = whereId, as auth.uid() = uid.  The USING
\* clause filters the rows; a FOR UPDATE policy without WITH CHECK applies
\* its USING clause to the new row as well.
ProfileUpdateResult(uid, whereId, patch) ==
    LET targets == {p \in profiles :
                       /\ p.id = whereId
                       /\ ProfilesSelectPolicy(uid, p) = "T"
                       /\ ProfilesUpdatePolicy(uid, p) = "T"}
    IN IF targets = {} THEN [profiles |-> profiles, res |-> "norows"]
       ELSE LET old == CHOOSE p \in targets : TRUE
                new == ApplyProfilePatch(old, patch)
                rest == profiles \ {old}
                ok == /\ ProfilesUpdatePolicy(uid, new) = "T"
                      /\ new.id \in UserIds                  \* REFERENCES auth.users
                      /\ new.username # NULL
                      /\ \A p \in rest : p.id # new.id /\ p.username # new.username
            IN IF ok THEN [profiles |-> rest \cup {new}, res |-> "ok"]
               ELSE [profiles |-> profiles, res |-> "error"]

\* Profile.updateProfile is the request with uid = whereId = user.id and a
\* patch of username, full_name, avatar_url, bio; the store serves any request.
UpdateProfile(uid, whereId, patch) ==
    /\ LET r == ProfileUpdateResult(uid, whereId, patch)
       IN /\ profiles' = r.profiles
          /\ lastOp' = Op("updateProfile", uid, <<>>, r.res, {})
    /\ UNCHANGED <<users, posts, friendships, clientVars>>

\* Row-level security is enabled on profiles and no policy is given FOR
\* INSERT or FOR DELETE: both are denied to every request.
ProfilesInsertPolicy(uid, row) == "F"

ProfilesDeletePolicy(uid, row) == "F"

InsertProfile(uid, id, username) ==
    /\ LET row == [id |-> id, username |-> username]
           ok == /\ ProfilesInsertPolicy(uid, row) = "T"
                 /\ row.id \in UserIds
                 /\ ProfileInsertOk(row)
       IN /\ profiles' = IF ok THEN profiles \cup {row} ELSE profiles
          /\ lastOp' = Op("insertProfile", uid, <<>>,
                          IF ok THEN "ok" ELSE "error", {})
    /\ UNCHANGED <<users, posts, friendships, clientVars>>

DeleteProfile(uid, whereId) ==
    /\ LET targets == {p \in profiles :
                          /\ p.id = whereId
                          /\ ProfilesSelectPolicy(uid, p) = "T"
                          /\ ProfilesDeletePolicy(uid, p) = "T"}
       IN /\ profiles' = profiles \ targets
          /\ lastOp' = Op("deleteProfile", uid, <<>>,
                          IF targets = {} THEN "norows" ELSE "ok", {})
    /\ UNCHANGED <<users, posts, friendships, clientVars>>

ReadProfiles(uid) ==
    /\ lastOp' = Op("selectProfiles", uid, <<>>, "ok",
                    {p.id : p \in SelectProfiles(uid)})
    /\ UNCHANGED <<users, profiles, posts, friendships, clientVars>>

InitStore ==
    /\ users = {}
    /\ profiles = {}
    /\ posts = {}
    /\ friendships = {}
    /\ lastOp = NoOp

InitProfiles == InitStore /\ InitClient /\ InitIdle

NextProfiles ==
    \/ \E id \in Users, addr \in Emails : Register(id, addr)
    \/ \E uid \in Requesters, w \in Users, patch \in ProfilePatches :
           UpdateProfile(uid, w, patch)
    \/ \E uid \in Requesters, id \in Users, n \in Usernames :
           InsertProfile(uid, id, n)
    \/ \E uid \in Requesters, w \in Users : DeleteProfile(uid, w)
    \/ \E uid \in Requesters : ReadProfiles(uid)

SpecProfiles == InitProfiles /\ [][NextProfiles]_vars

(***************************************************************************)
(* Posts.                                                                  *)
(***************************************************************************)
\* The values a request may give for privacy / status: a valid one, one
\* outside the CHECK list, NULL, or none (the column's DEFAULT applies).
PrivacyInputs == PrivacyValues \cup {"everyone", NULL, DEFAULT}
StatusInputs == StatusValues \cup {"blocked", NULL, DEFAULT}

\* INSERT INTO posts (user_id, content, privacy), content given.
PostInsertOk(uid, row) ==
    /\ PostsInsertPolicy(uid, row) = "T"
    /\ row.user_id # NULL                    \* NOT NULL
    /\ row.user_id \in ProfileIds            \* REFERENCES profiles
    /\ PrivacyCheck(row.privacy)

InsertPost(uid, user_id, privacy) ==
    /\ LET row == [id |-> Cardinality(posts) + 1, user_id |-> user_id,
                   privacy |-> PrivacyDefault(privacy)]
           ok == PostInsertOk(uid, row)
       IN /\ ok => Cardinality(posts) < MaxPosts
          /\ posts' = IF ok THEN posts \cup {row} ELSE posts
          /\ lastOp' = Op("insertPost", uid, <<>>,
                          IF ok THEN "ok" ELSE "error", {})
    /\ UNCHANGED <<users, profiles, friendships, clientVars>>

\* Home.createPost: insert({user_id: user?.id, content, image_url}) by the
\* signed-in user; privacy is not sent.
CreatePost(uid) == InsertPost(uid, uid, DEFAULT)

PostPatches ==
    {[user_id |-> i, privacy |-> KEEP] : i \in Users}
    \cup {[user_id |-> KEEP, privacy |-> v] : v \in PrivacyInputs \ {DEFAULT}}

ApplyPostPatch(row, patch) ==
    [id |-> row.id,
     user_id |-> IF patch.user_id = KEEP THEN row.user_id ELSE patch.user_id,
     privacy |-> IF patch.privacy = KEEP THEN row.privacy ELSE patch.privacy]

\* UPDATE posts SET ... WHERE id = whereId.
PostUpdateResult(uid, whereId, patch) ==
    LET targets == {p \in posts :
                       /\ p.id = whereId
                       /\ PostsSelectPolicy(uid, p) = "T"
                       /\ PostsUpdatePolicy(uid, p) = "T"}
    IN IF targets = {} THEN [posts |-> posts, res |-> "norows"]
       ELSE LET old == CHOOSE p \in targets : TRUE
                new == ApplyPostPatch(old, patch)
                ok == /\ PostsUpdatePolicy(uid, new) = "T"
                      /\ new.user_id \in ProfileIds
                      /\ PrivacyCheck(new.privacy)
            IN IF ok THEN [posts |-> (posts \ {old}) \cup {new}, res |-> "ok"]
               ELSE [posts |-> posts, res |-> "error"]

UpdatePost(uid, whereId, patch) ==
    /\ LET r == PostUpdateResult(uid, whereId, patch)
       IN /\ posts' = r.posts
          /\ lastOp' = Op("updatePost", uid, <<>>, r.res, {})
    /\ UNCHANGED <<users, profiles, friendships, clientVars>>

\* Home.fetchPosts: select from posts.
ReadPosts(uid) ==
    /\ lastOp' = Op("selectPosts", uid, <<>>, "ok",
                    {p.id : p \in SelectPosts(uid)})
    /\ UNCHANGED <<users, profiles, posts, friendships, clientVars>>

(***************************************************************************)
(* Friendships.                                                            *)
(***************************************************************************)
FriendshipInsertOk(uid, row) ==
    /\ FriendshipsInsertPolicy(uid, row) = "T"
    /\ row.sender_id # NULL /\ row.receiver_id # NULL       \* NOT NULL
    /\ row.sender_id \in ProfileIds                         \* REFERENCES profiles
    /\ row.receiver_id \in ProfileIds
    /\ StatusCheck(row.status)
    /\ \A f \in friendships :                               \* UNIQUE
          ~(f.sender_id = row.sender_id /\ f.receiver_id = row.receiver_id)

InsertFriendship(uid, sender_id, receiver_id, status) ==
    /\ LET row == [sender_id |-> sender_id, receiver_id |-> receiver_id,
                   status |-> StatusDefault(status)]
           ok == FriendshipInsertOk(uid, row)
       IN /\ ok => Cardinality(friendships) < MaxFriendships
          /\ friendships' = IF ok THEN friendships \cup {row} ELSE friendships
          /\ lastOp' = Op("insertFriendship", uid, <<sender_id>>,
                          IF ok THEN "ok" ELSE "error", {})
    /\ UNCHANGED <<users, profiles, posts, clientVars>>

FriendshipPatches ==
    {[sender_id |-> i, receiver_id |-> KEEP, status |-> KEEP] : i \in Users}
    \cup {[sender_id |-> KEEP, receiver_id |-> i, status |-> KEEP] : i \in Users}
    \cup {[sender_id |-> KEEP, receiver_id |-> KEEP, status |-> v] :
             v \in StatusInputs \ {DEFAULT}}

ApplyFriendshipPatch(row, patch) ==
    [sender_id |-> IF patch.sender_id = KEEP THEN row.sender_id
                   ELSE patch.sender_id,
     receiver_id |-> IF patch.receiver_id = KEEP THEN row.receiver_id
                     ELSE patch.receiver_id,
     status |-> IF patch.status = KEEP THEN row.status ELSE patch.status]

\* UPDATE friendships SET ... WHERE sender_id = s AND receiver_id = r.
FriendshipUpdateResult(uid, s, r, patch) ==
    LET targets == {f \in friendships :
                       /\ f.sender_id = s /\ f.receiver_id = r
                       /\ FriendshipsSelectPolicy(uid, f) = "T"
                       /\ FriendshipsUpdatePolicy(uid, f) = "T"}
    IN IF targets = {} THEN [friendships |-> friendships, res |-> "norows"]
       ELSE LET old == CHOOSE f \in targets : TRUE
                new == ApplyFriendshipPatch(old, patch)
                rest == friendships \ {old}
                ok == /\ FriendshipsUpdatePolicy(uid, new) = "T"
                      /\ new.sender_id \in ProfileIds
                      /\ new.receiver_id \in ProfileIds
                      /\ StatusCheck(new.status)
                      /\ \A f \in rest :
                            ~(f.sender_id = new.sender_id
                              /\ f.receiver_id = new.receiver_id)
            IN IF ok THEN [friendships |-> rest \cup {new}, res |-> "ok"]
               ELSE [friendships |-> friendships, res |-> "error"]

UpdateFriendship(uid, s, r, patch) ==
    /\ LET res == FriendshipUpdateResult(uid, s, r, patch)
       IN /\ friendships' = res.friendships
          /\ lastOp' = Op("updateFriendship", uid, <<>>, res.res, {})
    /\ UNCHANGED <<users, profiles, posts, clientVars>>

\* The store after every user of Users has registered (SpecProfiles reaches
\* it): identities u1, u2 with their provisioned profiles.
EmailOf(u) == IF u = "u1" THEN "e1" ELSE "e2"

InitSocial ==
    /\ users = {[id |-> u, email |-> EmailOf(u)] : u \in Users}
    /\ profiles = {[id |-> u, username |-> EmailOf(u)] : u \in Users}
    /\ posts = {}
    /\ friendships = {}
    /\ lastOp = NoOp
    /\ InitClient
    /\ InitIdle

NextSocial ==
    \/ \E uid \in Requesters, o \in Users \cup {NULL}, v \in PrivacyInputs :
           InsertPost(uid, o, v)
    \/ \E uid \in Users : CreatePost(uid)
    \/ \E uid \in Requesters, w \in 1..MaxPosts, patch \in PostPatches :
           UpdatePost(uid, w, patch)
    \/ \E uid \in Requesters : ReadPosts(uid)
    \/ \E uid \in Requesters, s \in Users, r \in Ids, v \in StatusInputs :
           InsertFriendship(uid, s, r, v)
    \/ \E uid \in Requesters, s \in Users, r \in Users,
          patch \in FriendshipPatches : UpdateFriendship(uid, s, r, patch)

SpecSocial == InitSocial /\ [][NextSocial]_vars

InitAuth == InitStore /\ InitClient /\ InitIdle

NextAuth ==
    \/ \E pw \in PasswordSamples, cpw \in PasswordSamples, code \in CodeSamples :
           Submit(pw, cpw, code)
    \/ RespondOk
    \/ RespondError
    \/ \E e \in EmailSamples : SetEmail(e)
    \/ ToggleMode
    \/ ForgotPassword
    \/ \E ok \in BOOLEAN : ResendVerification(ok)
    \/ Mount
    \/ \E d \in TickSteps : Tick(d)

SpecAuth == InitAuth /\ [][NextAuth]_vars

InitSession == InitStore /\ InitClient /\ InitIdle

NextSession ==
    \/ \E pw \in PasswordSamples, cpw \in PasswordSamples, code \in CodeSamples :
           Submit(pw, cpw, code)
    \/ RespondOk
    \/ RespondError
    \/ \E e \in EmailSamples : SetEmail(e)
    \/ ToggleMode
    \/ Mount
    \/ \E path \in Paths : GoTo(path)
    \/ \E s \in Users \cup {NULL} : OnAuthStateChange(s)
    \/ SignOut
    \/ \E ok \in BOOLEAN : SignOutReturns(ok)

SpecSession == InitSession /\ [][NextSession]_vars

(***************************************************************************)
(* Friendship requests issued by one user only: Requester writes the       *)
(* friendships table, Owner never does.  Posts are written and read by     *)
(* anyone.                                                                 *)
(***************************************************************************)
Requester == "u1"
Owner == "u2"

NextRequester ==
    \/ \E uid \in Requesters, o \in Users \cup {NULL}, v \in PrivacyInputs :
           InsertPost(uid, o, v)
    \/ \E uid \in Requesters, w \in 1..MaxPosts, patch \in PostPatches :
           UpdatePost(uid, w, patch)
    \/ \E uid \in Requesters : ReadPosts(uid)
    \/ \E s \in Users, r \in Ids, v \in StatusInputs :
           InsertFriendship(Requester, s, r, v)
    \/ \E s \in Users, r \in Users, patch \in FriendshipPatches :
           UpdateFriendship(Requester, s, r, patch)

SpecRequester == InitSocial /\ [][NextRequester]_vars

(***************************************************************************)
(* The field rules (lib/validation) applied to input strings.              *)
(***************************************************************************)
MaxPad == 6            \* password inputs: a run of up to MaxPad characters
MaxTail == 3           \* followed by up to MaxTail characters
MaxEmailTail == 6      \* email inputs: the characters after the run of a's
MaxCodeLen == 7        \* verification-code inputs

EmailMax == 64

Rules == {"password", "email", "verificationCode"}

Seqs(S, n) == UNION {[1..k -> S] : k \in 0..n}

Pad(c, n) == [i \in 1..n |-> c]

PasswordInputs ==
    {Pad(c, n) \o t : c \in {"a", "1"}, n \in 0..MaxPad,
                      t \in Seqs({"A", "a", "1", "!"}, MaxTail)}

\* short strings, and strings that end at or one past the longest email
EmailInputs ==
    {Pad("a", n) \o t :
        n \in {0, EmailMax - MaxEmailTail, EmailMax - MaxEmailTail + 1},
        t \in Seqs({"a", "@", "."}, MaxEmailTail)}

CodeInputs == Seqs({"1", "a"}, MaxCodeLen)

InputsOf(f) ==
    CASE f = "password" -> PasswordInputs
      [] f = "email" -> EmailInputs
      [] f = "verificationCode" -> CodeInputs

SchemaOf(f, str) ==
    CASE f = "password" -> passwordSchema(str)
      [] f = "email" -> emailSchema(str)
      [] f = "verificationCode" -> verificationCodeSchema(str)

\* schema.safeParse(input): success, or error.errors[0].message
Validate ==
    /\ field \in Rules
    /\ verdict = Unchecked
    /\ verdict' = FirstError(SchemaOf(field, input))
    /\ UNCHANGED <<field, input, formVars, histVars, storeVars, route, dbVars>>

InitValidation ==
    /\ InitStore
    /\ InitClient
    /\ field \in Rules
    /\ input \in InputsOf(field)
    /\ verdict = Unchecked

NextValidation == Validate

SpecValidation == InitValidation /\ [][NextValidation]_vars

(***************************************************************************)
(* Claims about the store.                                                 *)
(***************************************************************************)
\* f links users a and b, in either direction.
Links(f, a, b) ==
    \/ f.sender_id = a /\ f.receiver_id = b
    \/ f.sender_id = b /\ f.receiver_id = a

\* The visibility rule as the specification words it.
VisibleTo(r, p) ==
    \/ p.privacy = "public"
    \/ r = p.user_id
    \/ /\ p.privacy = "friends"
       /\ \E f \in friendships : f.status = "accepted" /\ Links(f, r, p.user_id)

\* C1: a read of posts by any requester returns a stored post if and only
\* if the post is public, or the requester owns it, or it is friends-only and
\* an accepted friendship links requester and owner in either direction; so a
\* private post is returned to its owner alone.
C1_PostsReadVisibility ==
    /\ \A r \in Requesters, p \in posts : p \in SelectPosts(r) <=> VisibleTo(r, p)
    /\ lastOp.op = "selectPosts" =>
          lastOp.rows = {p.id : p \in {q \in posts : VisibleTo(lastOp.by, q)}}
    /\ \A r \in Requesters, p \in posts :
          (p.privacy = "private" /\ r # p.user_id) => p \notin SelectPosts(r)

\* A read by a user other than the owner has returned a friends-only post.
C1_Witness ==
    /\ lastOp.op = "selectPosts"
    /\ \E p \in posts :
          p.privacy = "friends" /\ p.user_id # lastOp.by /\ p.id \in lastOp.rows

\* C2: whenever a friendship between R and O changes from accepted to
\* rejected, a read of posts by R made right after the change returns none of
\* O's friends-only posts.
C2_RejectRemovesVisibility ==
    [][\A r \in Users, o \in Users :
          (/\ r # o
           /\ \E f \in friendships :
                 /\ Links(f, r, o)
                 /\ f.status = "accepted"
                 /\ [f EXCEPT !.status = "rejected"] \in friendships')
          => \A p \in SelectPosts(r)' :
                ~(p.user_id = o /\ p.privacy = "friends")]_vars

\* C3: the friendships table holds at most one row per unordered pair of
\* users.
C3_UniquePerUnorderedPair ==
    \A f \in friendships, g \in friendships :
        f # g => {f.sender_id, f.receiver_id} # {g.sender_id, g.receiver_id}

\* C4: a friendship insert whose sender_id differs from the requester's
\* identity is rejected and leaves the friendships table unchanged.
C4_ForgedSenderRejected ==
    [][(lastOp'.op = "insertFriendship" /\ lastOp'.arg[1] # lastOp'.by)
          => (lastOp'.res = "error" /\ friendships' = friendships)]_vars

\* A signed-in user's insert naming another user as sender was rejected.
C4_Witness ==
    /\ lastOp.op = "insertFriendship"
    /\ lastOp.by \in Users
    /\ lastOp.arg[1] \in Users \ {lastOp.by}
    /\ lastOp.res = "error"

\* C5: an update of a friendship row is accepted only from the row's sender
\* or receiver, and an accepted update changes the row's status only: the
\* (sender_id, receiver_id) pairs stored are the same after it as before.
C5_UpdateStatusOnly ==
    [][(lastOp'.op = "updateFriendship" /\ lastOp'.res = "ok")
          => /\ \A f \in friendships \ friendships' :
                   lastOp'.by \in {f.sender_id, f.receiver_id}
             /\ {<<f.sender_id, f.receiver_id>> : f \in friendships'}
                  = {<<f.sender_id, f.receiver_id>> : f \in friendships}]_vars

\* C6: every profile row is readable by every requester; a row, once
\* created (by a registration), is changed only by an update whose requester
\* is the row's id, and keeps its id.
C6_ProfileOwnerOnly ==
    [][/\ \A r \in Requesters : SelectProfiles(r)' = profiles'
       /\ \A p \in profiles \ profiles' :
             /\ lastOp'.op = "updateProfile"
             /\ lastOp'.res = "ok"
             /\ lastOp'.by = p.id
             /\ \E q \in profiles' : q.id = p.id
       /\ \A q \in profiles' :
             q.id \notin ProfileIds => lastOp'.op = "register"]_vars

\* A signed-in user's update aimed at the other user's row changed nothing.
C6_Witness ==
    /\ lastOp.op = "updateProfile"
    /\ lastOp.by \in Users
    /\ lastOp.res = "norows"
    /\ ProfileIds = Users
    /\ \E p \in profiles : p.username = "nick"

\* C7: the profile ids are the identity ids in every reachable state; a new
\* identity's profile has username = the identity's email; a registration
\* whose profile insert fails creates no identity.
C7_ProvisioningAtomic ==
    [][/\ ProfileIds = UserIds
       /\ ProfileIds' = UserIds'
       /\ \A u \in users' \ users :
             [id |-> u.id, username |-> u.email] \in profiles'
       /\ (lastOp'.op = "register" /\ lastOp'.res = "error") =>
             users' = users]_vars

\* A registration failed in the trigger: its email was free as an identity
\* and taken as a username.
C7_Witness ==
    /\ lastOp.op = "register"
    /\ lastOp.res = "error"
    /\ ProfileIds = UserIds
    /\ \E p \in profiles :
          p.username \in Emails /\ \A u \in users : u.email # p.username

\* C8: every stored post's privacy is one of public, friends, private.
C8_PrivacyEnumerated ==
    \A p \in posts : p.privacy \in PrivacyValues

(***************************************************************************)
(* Claims about the auth form.                                             *)
(***************************************************************************)
\* The step ends a submission of the form with outcome res.
Ends(res) == lastSubmit' # lastSubmit /\ lastSubmit'.res = res

\* C9: a failed submission increments the failure counter and a successful
\* one resets it to 0; the fifth consecutive failure sets the lockout
\* timestamp 5 minutes ahead; a submission made before that timestamp is
\* rejected with the lockout message, without validation and without a call
\* of the identity service.
C9_RateLimit ==
    [][/\ Ends("failed") => attempts' = attempts + 1
       /\ Ends("ok") => attempts' = 0
       /\ (Ends("failed") /\ streak' = 5) => lockoutUntil' = now + LockoutMs
       /\ (lastSubmit'.seq # lastSubmit.seq /\ mounted /\ Locked) =>
             /\ lastSubmit'.res = "locked"
             /\ ~lastSubmit'.validated
             /\ ~lastSubmit'.called
             /\ inflight' = NoCall
             /\ error' = CountdownMsg(CeilSeconds(lockoutUntil - now))
             /\ attempts' = attempts
             /\ lockoutUntil' = lockoutUntil]_vars

\* After five failures, a submission made during the lockout was rejected.
C9_Witness ==
    /\ lastSubmit.res = "locked"
    /\ streak = 5
    /\ Locked
    /\ error.seconds > 0

\* C10: a submission that fails after the lockout timestamp has elapsed
\* reports its own error, counts as the first failure of a new series and
\* leaves no lockout set.
C10_LockoutExpiryResets ==
    [][(Ends("failed") /\ lockoutUntil # NoDate /\ now > lockoutUntil)
          => /\ attempts' = 1
             /\ error' # TooManyMsg
             /\ lockoutUntil' = NoDate]_vars

\* The step is a submission of the form made while no lockout runs.
Submits == mounted /\ lastSubmit'.seq # lastSubmit.seq /\ ~Locked

\* The message of the first constraint the submitted fields violate in the
\* mode of the submission, or NoError.
Violated ==
    ValidationError(mode, submitted'.email, submitted'.password,
                    submitted'.confirmPassword, submitted'.verificationCode)

\* C11 (as stated): a submission in which a field fails validation shows the
\* message of the violated constraint and issues no identity-service call.
C11_ConstraintMessageShown ==
    [][(Submits /\ Violated # NoError)
          => /\ error' = Msg(Violated)
             /\ inflight' = NoCall
             /\ ~lastSubmit'.called]_vars

\* C11 (amended): a submission made outside a lockout in which a field fails
\* validation issues no identity-service call and counts as a failure; it
\* shows the message of the first violated constraint while the failure
\* counter is below 4, and the lockout message once the counter is 4 or more.
C11_ConstraintOrLockoutMessage ==
    [][(Submits /\ Violated # NoError)
          => /\ error' = IF attempts >= 4 THEN TooManyMsg ELSE Msg(Violated)
             /\ inflight' = NoCall
             /\ ~lastSubmit'.called
             /\ lastSubmit'.res = "failed"]_vars

\* A registration whose confirmation differs from its password was the
\* fifth failure: no call was made and the lockout message is shown.
C11_Witness ==
    /\ lastSubmit.res = "failed"
    /\ ~lastSubmit.called
    /\ submitted.password # submitted.confirmPassword
    /\ passwordSchema(submitted.password) = <<>>
    /\ emailSchema(submitted.email) = <<>>
    /\ mode = "register"
    /\ error = TooManyMsg
    /\ streak = 5

(***************************************************************************)
(* Claims about the auth store and the routes.                             *)
(***************************************************************************)
\* The step is handleSubmit's navigate('/') after signIn returned.
Navigates ==
    inflight.call = "signIn" /\ inflight' = NoCall /\ lastSubmit'.res = "ok"

\* C12: when signIn completes successfully the store holds a user and
\* loading is false by the time the form navigates to /; a signOut that
\* completes successfully leaves user null, one that fails leaves user
\* unchanged; each session-change notification sets user to the notified
\* session's user and loading to false.
C12_StoreTransitions ==
    [][/\ Navigates => (user' # NULL /\ ~loading')
       /\ (signOutCall = "pending" /\ signOutCall' = "none") => user' = NULL
       /\ (signOutCall = "pending" /\ signOutCall' = "rejected") => user' = user
       /\ notified' # notified => (user' = notified' /\ ~loading')]_vars

\* The step is the return of a successful signUp.
Registers ==
    inflight.call = "signUp" /\ inflight' = NoCall /\ lastSubmit'.res = "ok"

\* The step issues the identity-service call named.
Calls(call) == inflight = NoCall /\ inflight'.call = call

\* C13 (as stated): a successful signUp leaves the held user unchanged, sets
\* verificationSent and puts the form in verify mode; from then on no signIn
\* call is made for the registered email until a verification call carrying
\* a code of exactly 6 digits has succeeded.
C13_NoLoginBeforeVerification ==
    [][/\ Registers => (user' = user /\ verificationSent' /\ mode' = "verify")
       /\ Calls("signIn") => submitted'.email \notin unverified
       /\ Calls("verifyOtp") =>
             /\ Len(submitted'.verificationCode) = 6
             /\ \A i \in 1..6 : submitted'.verificationCode[i] \in DigitChars]_vars

\* C13 (amended): a successful signUp leaves the held user unchanged, sets
\* verificationSent and puts the form in verify mode; a verification call is
\* made only with a code of exactly 6 digits.  (The form does not hold back
\* a signIn call for the registered email.)
C13_RegistrationAwaitsCode ==
    [][/\ Registers => (user' = user /\ verificationSent' /\ mode' = "verify")
       /\ Calls("verifyOtp") =>
             /\ Len(submitted'.verificationCode) = 6
             /\ \A i \in 1..6 : submitted'.verificationCode[i] \in DigitChars]_vars

\* A signUp succeeded while the store held a user: the form awaits the code
\* and the user is still held.
C13_Witness ==
    /\ mode = "verify"
    /\ verificationSent
    /\ lastSubmit.res = "ok"
    /\ submitted.email \in unverified
    /\ user = "u2"
    /\ success.text = "Registration successful! Please check your email for verification."

\* C14: the protected routes / and /profile render their content only
\* when user is non-null and loading is false; with loading false and user
\* null they redirect to /auth; the /auth route renders the form whatever
\* the auth state.
C14_RouteGuard ==
    /\ \A path \in Paths \ {"/auth"} :
          /\ Element(path) \in {"Home", "Profile"} => (user # NULL /\ ~loading)
          /\ (user # NULL /\ ~loading) =>
                Element(path) = (IF path = "/" THEN "Home" ELSE "Profile")
          /\ (user = NULL /\ ~loading) => Element(path) = "Navigate /auth"
    /\ Element("/auth") = "Auth"

\* The form navigated to / after the listener was told of the session: the
\* feed is rendered.
C14_Witness ==
    /\ route = "/"
    /\ lastSubmit.res = "ok"
    /\ Element(route) = "Home"
    /\ notified = user

\* C16: once no call is in flight, the held user is the user of the session
\* last notified and loading is false; loading never returns to true.
C16_HazardFreeOverwrites ==
    [][/\ (notified' # Never /\ inflight' = NoCall /\ signOutCall' # "pending")
             => (user' = notified' /\ ~loading')
       /\ ~loading => ~loading']_vars

(***************************************************************************)
(* Claims about the field rules.                                           *)
(***************************************************************************)
\* The message of the first constraint of rule f that str violates, in the
\* order the constraints are listed for the field, or NoError.
FirstViolated(f, str) ==
    CASE f = "password" ->
           IF Len(str) < 8 THEN "Password must be at least 8 characters"
           ELSE IF \A i \in 1..Len(str) : str[i] \notin UpperChars
           THEN "Password must contain at least one uppercase letter"
           ELSE IF \A i \in 1..Len(str) : str[i] \notin LowerChars
           THEN "Password must contain at least one lowercase letter"
           ELSE IF \A i \in 1..Len(str) : str[i] \notin DigitChars
           THEN "Password must contain at least one number"
           ELSE IF \A i \in 1..Len(str) : str[i] \in AlnumChars
           THEN "Password must contain at least one special character"
           ELSE NoError
      [] f = "email" ->
           IF ~IsEmail(str) THEN "Please enter a valid email address"
           ELSE IF Len(str) < 5 THEN "Email must be at least 5 characters"
           ELSE IF Len(str) > EmailMax THEN "Email must not exceed 64 characters"
           ELSE NoError
      [] f = "verificationCode" ->
           IF Len(str) # 6 THEN "Verification code must be 6 digits"
           ELSE IF \E i \in 1..Len(str) : str[i] \notin DigitChars
           THEN "Verification code must contain only numbers"
           ELSE NoError

\* str violates none of the constraints of rule f.
Satisfies(f, str) ==
    CASE f = "password" ->
           /\ Len(str) >= 8
           /\ \E i \in 1..Len(str) : str[i] \in UpperChars
           /\ \E i \in 1..Len(str) : str[i] \in LowerChars
           /\ \E i \in 1..Len(str) : str[i] \in DigitChars
           /\ \E i \in 1..Len(str) : str[i] \notin AlnumChars
      [] f = "email" -> IsEmail(str) /\ Len(str) >= 5 /\ Len(str) <= EmailMax
      [] f = "verificationCode" ->
           Len(str) = 6 /\ \A i \in 1..Len(str) : str[i] \in DigitChars

\* C15: each field rule accepts an input exactly when the input violates
\* none of the rule's constraints, and a rejected input yields the message
\* of the first violated constraint in the order listed for the field.
C15_FirstViolatedConstraint ==
    verdict # Unchecked =>
        /\ (verdict = NoError) <=> Satisfies(field, input)
        /\ verdict = FirstViolated(field, input)

\* A password long enough and with an uppercase letter, but with neither a
\* lowercase letter nor a special character, was rejected for the lowercase
\* letter.
C15_Witness ==
    /\ field = "password"
    /\ verdict = "Password must contain at least one lowercase letter"
    /\ Len(input) >= 8
    /\ \A i \in 1..Len(input) : input[i] \in AlnumChars

(***************************************************************************)
(* Claims about requests issued by one user only.                          *)
(***************************************************************************)
\* C17: in every state reached by friendship inserts and updates issued by
\* Requester only, a read of posts by Requester returns no post of Owner
\* whose privacy is friends.
C17_NoSelfGrantedAccess ==
    \A p \in SelectPosts(Requester) :
        ~(p.user_id = Owner /\ p.privacy = "friends")

====
